---- MODULE Spec2Model ----
(***************************************************************************)
(* A model of xswm (src/main.c), a minimal stacking window manager for X.  *)
(*                                                                         *)
(* The manager's memory is the linked list of clients starting at `head`,  *)
(* the counter `clients_n`, the cached screen size `sw`, `sh` and the flag *)
(* `running`.  Every handler of the main loop is one action.  A handler    *)
(* computes the new memory and the sequence of X requests it issues; the   *)
(* display server's part of the state (input focus, root window            *)
(* properties, stacking order) is the result of applying these requests in *)
(* order.                                                                  *)
(*                                                                         *)
(* The linked list is a sequence of client records, head first; a pointer  *)
(* to a client is its position in the sequence and NULL is position 0.     *)
(***************************************************************************)
EXTENDS Integers, Sequences, FiniteSets, TLC

\* Bounds of the model.
NumWindows == 3   \* client windows of the specification Spec
GeomWindows == 1  \* client windows of the specification SpecGeom
ScreenWindows == 2  \* client windows of the specification SpecScreen

\* Program constants.
BORDER_WIDTH == 1
NULL == 0
None == 0

Windows == 1..NumWindows
WindowsGeom == 1..GeomWindows
WindowsScreen == 1..ScreenWindows
\* The root window: an identifier no client window has.
r == NumWindows + GeomWindows + ScreenWindows + 1

-----------------------------------------------------------------------------
(* Inputs: what the server answers to the manager's queries, and the       *)
(* fields of the events it delivers.                                       *)

\* Screen sizes a ConfigureNotify of the root window may report.
ScreenSizesPlain == {<<1920, 1080>>}
ScreenSizesAll == {<<1920, 1080>>, <<800, 600>>}
\* The window and size of a ConfigureNotify: the root window with a screen
\* size, or a client window with its own size.
Configured(window, size) == [window |-> window, size |-> size]
ConfigureNotifies(W, sizes) ==
    {Configured(r, s) : s \in sizes}
    \cup {Configured(w, <<400, 300>>) : w \in W}

\* XGetGeometry answers at map time (ok = FALSE: the call fails and the
\* initial values sw, sh stay).
GeometriesPlain == {[ok |-> TRUE, width |-> 400, height |-> 300]}
GeometriesAll == GeometriesPlain

\* XGetWMNormalHints answers (ok = FALSE: no WM_NORMAL_HINTS property).
Size(w, h) == [width |-> w, height |-> h]
NoHints ==
    [ok |-> FALSE, flags |-> {}, min |-> Size(0, 0), base |-> Size(0, 0),
     max |-> Size(0, 0)]
HintsPlain == {NoHints}
HintsAll ==
    { NoHints,
      [ok |-> TRUE, flags |-> {"PMinSize", "PMaxSize"}, min |-> Size(400, 300),
       base |-> Size(0, 0), max |-> Size(400, 300)],
      [ok |-> TRUE, flags |-> {"PMinSize", "PMaxSize"}, min |-> Size(400, 100),
       base |-> Size(0, 0), max |-> Size(400, 300)],
      [ok |-> TRUE, flags |-> {"PBaseSize", "PMaxSize"}, min |-> Size(0, 0),
       base |-> Size(400, 300), max |-> Size(400, 300)],
      [ok |-> TRUE, flags |-> {"PMinSize", "PBaseSize", "PMaxSize"},
       min |-> Size(100, 100), base |-> Size(400, 300), max |-> Size(400, 300)],
      [ok |-> TRUE, flags |-> {"PMinSize"}, min |-> Size(400, 300),
       base |-> Size(0, 0), max |-> Size(400, 300)],
      [ok |-> TRUE, flags |-> {"PMaxSize"}, min |-> Size(400, 300),
       base |-> Size(400, 300), max |-> Size(400, 300)] }

\* No hints, and hints of a window of fixed size.
HintsSome == {h \in HintsAll : h.flags \in {{}, {"PMinSize", "PMaxSize"}} /\ h.min = h.max}

\* Answers to the _NET_WM_WINDOW_TYPE query and to XGetTransientForHint.
NoType == [status |-> "Success", prop |-> "", transient |-> FALSE]
TypesPlain == {NoType}
TypesAll ==
    { NoType,
      [status |-> "Success", prop |-> "", transient |-> TRUE],
      [status |-> "Success", prop |-> "WMWindowTypeNormal", transient |-> TRUE],
      [status |-> "Success", prop |-> "WMWindowTypeDialog", transient |-> FALSE],
      [status |-> "BadWindow", prop |-> "", transient |-> TRUE] }

\* What a window declares when it is classified.
Declared(hints, wtype) == [hints |-> hints, wtype |-> wtype]
DeclaredPlain == {Declared(NoHints, NoType)}
DeclaredAll ==
    {Declared(h, NoType) : h \in HintsAll} \cup {Declared(NoHints, t) : t \in TypesAll}
    \cup {Declared(h, t) : h \in {x \in HintsAll : x.flags = {"PMinSize", "PMaxSize"}},
                           t \in {x \in TypesAll : x.prop = "WMWindowTypeDialog"}}

DeclaredSome == {Declared(h, NoType) : h \in HintsSome}

\* Value mask and fields of a ConfigureRequest.
Request(mask, width, height) ==
    [value_mask |-> mask, x |-> 10, y |-> 20, width |-> width, height |-> height,
     border_width |-> 0, above |-> None, detail |-> "Above"]
ConfigureRequestsPlain ==
    {Request({"CWX"}, 400, 300), Request({"CWWidth", "CWHeight"}, 400, 300)}
ConfigureRequestsAll ==
    {Request(m, 2000, 701) :
        m \in {{"CWX"}, {"CWWidth"}, {"CWX", "CWHeight"}, {"CWWidth", "CWHeight"}}}
    \cup {Request({"CWWidth", "CWHeight"}, 400, 300)}

ConfigureRequestsSome ==
    {Request({"CWWidth", "CWHeight"}, 2000, 701),
     Request({"CWWidth", "CWHeight"}, 400, 300)}

\* Answers of XGetWMProtocols (ok = FALSE: no WM_PROTOCOLS property).
NoProtocols == [ok |-> FALSE, protocols |-> <<>>]
ProtocolsAll ==
    { NoProtocols,
      [ok |-> TRUE, protocols |-> <<"WM_TAKE_FOCUS">>],
      [ok |-> TRUE, protocols |-> <<"WM_TAKE_FOCUS", "WM_DELETE_WINDOW">>] }

\* Message type of a ClientMessage, with the protocols its window declares.
\* WMState is _NET_WM_STATE asking for the fullscreen state, an atom the
\* manager does not intern.
Message(msg, protos) == [message_type |-> msg, protos |-> protos]
ClientMessages ==
    {Message(m, NoProtocols) :
        m \in {"ActiveWindow", "RequestFrameExtents", "WMName", "WMState"}}
    \cup {Message("CloseWindow", p) : p \in ProtocolsAll}

\* A PropertyNotify of a client window: the atom, and what the window
\* declares when the handler asks.
ClientProperty(atom, hints, wtype) == [atom |-> atom, hints |-> hints, wtype |-> wtype]
ClientProperties(H, T) ==
    {ClientProperty("XA_WM_NORMAL_HINTS", h, NoType) : h \in H}
    \cup {ClientProperty("WMWindowType", NoHints, t) : t \in T}
    \cup {ClientProperty("WMName", NoHints, NoType)}

\* A PropertyNotify of the root window: the atom, the value of _XSWM_CMD
\* (ok = FALSE: XGetTextProperty fails) and the head's protocols.
Text(s) == [ok |-> TRUE, value |-> s]
RootProperty(atom, text, protos) == [atom |-> atom, text |-> text, protos |-> protos]
RootProperties ==
    {RootProperty("XA_WM_CMD", Text(<<"c", "l", "o", "s", "e">>), p) : p \in ProtocolsAll}
    \cup {RootProperty("XA_WM_CMD", t, NoProtocols) :
            t \in { Text(<<"l", "a", "s", "t">>),
                    Text(<<"q", "u", "i", "t">>),
                    Text(<<"l", "a", "s", "t", "t">>),
                    Text(<<"q", "u", "i", "t", "q", "u", "i", "t">>),
                    Text(<<>>),
                    [ok |-> FALSE, value |-> <<>>] }}
    \cup {RootProperty("WMName", Text(<<"q", "u", "i", "t">>), NoProtocols)}

\* Of these, the remote command "last".
RootPropertiesLast == {p \in RootProperties : p.text = Text(<<"l", "a", "s", "t">>)}

-----------------------------------------------------------------------------
VARIABLES
    head,       \* the linked list of clients, head first
    clients_n,  \* number of clients in the list
    sw, sh,     \* screen width and height
    running,    \* the main loop's flag
    focused,    \* server: the window of the last XSetInputFocus, or None
    rootProps,  \* server: the root window's list-valued EWMH properties
    xstack,     \* server: stacking order of the windows followed, bottom first
    ev,         \* the event handled last
    cmds,       \* the X requests the last handler issued, in order
    tracked,    \* history: windows inserted by a map request and not removed
    recency,    \* history: tracked windows by last insert or raise, newest first
    inserted    \* history: tracked windows by time of insertion, oldest first

mem == <<head, clients_n, sw, sh, running>>
server == <<focused, rootProps, xstack>>
history == <<tracked, recency, inserted>>
vars == <<head, clients_n, sw, sh, running, focused, rootProps, xstack, ev, cmds,
          tracked, recency, inserted>>

-----------------------------------------------------------------------------
(* Sequences.                                                              *)

RemoveAt(s, i) == SubSeq(s, 1, i - 1) \o SubSeq(s, i + 1, Len(s))
Without(s, x) == SelectSeq(s, LAMBDA y : y # x)
Reverse(s) == [i \in 1..Len(s) |-> s[Len(s) - i + 1]]
Range(s) == {s[i] : i \in 1..Len(s)}
WinsOf(list) == [i \in 1..Len(list) |-> list[i].w]
\* The characters of s as one string.
RECURSIVE Str(_)
Str(s) == IF s = <<>> THEN "" ELSE Head(s) \o Str(Tail(s))
\* C integer division: the quotient truncated toward zero.
CDiv(a, b) == IF a >= 0 THEN a \div b ELSE -((-a) \div b)

-----------------------------------------------------------------------------
(* The X requests a handler issues, and what the server does with them.    *)

XSetInputFocus(w) == [op |-> "XSetInputFocus", w |-> w]
XChangeProperty(w, prop, mode, data) ==
    [op |-> "XChangeProperty", w |-> w, prop |-> prop, mode |-> mode, data |-> data]
XDeleteProperty(w, prop) == [op |-> "XDeleteProperty", w |-> w, prop |-> prop]
XRaiseWindow(w) == [op |-> "XRaiseWindow", w |-> w]
XMapWindow(w) == [op |-> "XMapWindow", w |-> w]
XAllowEvents == [op |-> "XAllowEvents", mode |-> "ReplayPointer"]
XGrabButton(w) == [op |-> "XGrabButton", w |-> w]
XUngrabButton(w) == [op |-> "XUngrabButton", w |-> w]
XSelectInput(w, mask) == [op |-> "XSelectInput", w |-> w, mask |-> mask]
XGrabServer == [op |-> "XGrabServer"]
XUngrabServer == [op |-> "XUngrabServer"]
XSync == [op |-> "XSync"]
XMoveResizeWindow(w, x, y, width, height) ==
    [op |-> "XMoveResizeWindow", w |-> w, x |-> x, y |-> y, width |-> width,
     height |-> height]
XConfigureWindow(w, mask, changes) ==
    [op |-> "XConfigureWindow", w |-> w, mask |-> mask, changes |-> changes]
XSendEvent(w, event) == [op |-> "XSendEvent", w |-> w, event |-> event]

\* The server's state after one request.  Only the root window's properties,
\* the input focus and the stacking order are kept; every other request has
\* its effect on a client window and is visible in cmds alone.
ApplyRequest(x, c) ==
    CASE c.op = "XSetInputFocus" -> [x EXCEPT !.focused = c.w]
      [] c.op = "XRaiseWindow" /\ c.w \in Range(x.xstack) ->
            [x EXCEPT !.xstack = Without(x.xstack, c.w) \o <<c.w>>]
      [] c.op = "XChangeProperty" /\ c.w = r /\ c.prop \in DOMAIN x.rootProps ->
            [x EXCEPT !.rootProps[c.prop] =
                IF c.mode = "Append" THEN @ \o c.data ELSE c.data]
      [] OTHER -> x

RECURSIVE ApplyRequests(_, _)
ApplyRequests(x, cs) ==
    IF cs = <<>> THEN x ELSE ApplyRequests(ApplyRequest(x, Head(cs)), Tail(cs))

\* The handler issued the requests cs.
Issue(cs) ==
    LET x == ApplyRequests(
                 [focused |-> focused, rootProps |-> rootProps, xstack |-> xstack], cs)
    IN  /\ cmds' = cs
        /\ focused' = x.focused
        /\ rootProps' = x.rootProps
        /\ xstack' = x.xstack

-----------------------------------------------------------------------------
(* Window state.                                                           *)

is_fixed(hints) ==
    IF ~hints.ok THEN FALSE
    ELSE IF "PMinSize" \in hints.flags
         THEN "PMaxSize" \in hints.flags /\ hints.min = hints.max
         ELSE IF "PBaseSize" \in hints.flags
              THEN "PMaxSize" \in hints.flags /\ hints.base = hints.max
              ELSE FALSE

is_normal(wtype) ==
    IF wtype.status # "Success" THEN TRUE
    ELSE IF wtype.prop # "" THEN wtype.prop = "WMWindowTypeNormal"
         ELSE ~wtype.transient

\* is_floating without the negation of normal.
is_floating_normal(c) == c.fixed \/ c.normal

is_floating(c) == c.fixed \/ ~c.normal

-----------------------------------------------------------------------------
(* List functions.                                                         *)

\* get_client that stops before the last client of the list.
get_client_short(w) ==
    IF \E i \in 1..(Len(head) - 1) : head[i].w = w
    THEN CHOOSE i \in 1..(Len(head) - 1) :
             head[i].w = w /\ \A j \in 1..(i - 1) : head[j].w # w
    ELSE NULL

get_client(w) ==
    IF \E i \in 1..Len(head) : head[i].w = w
    THEN CHOOSE i \in 1..Len(head) :
             head[i].w = w /\ \A j \in 1..(i - 1) : head[j].w # w
    ELSE NULL

get_parent(c) == IF c = NULL \/ c = 1 THEN NULL ELSE c - 1

\* An unlink that leaves the parent's next pointer as it is.
unlink_none(c) == head

\* The list after get_parent(c)->next = c->next, for a client c that is not
\* the head.
unlink(c) == RemoveAt(head, get_parent(c) + 1)

-----------------------------------------------------------------------------
(* Window management.                                                      *)

\* focus that leaves _NET_ACTIVE_WINDOW as it is.
focus_no_property(w) == <<XSetInputFocus(w)>>

\* focus that writes _NET_ACTIVE_WINDOW and leaves the input focus as it is.
focus_no_input(w) == <<XChangeProperty(r, "ActiveWindow", "Replace", <<w>>)>>

focus(w) ==
    << XSetInputFocus(w), XChangeProperty(r, "ActiveWindow", "Replace", <<w>>) >>

\* update_geometry that centres vertically with the width.
update_geometry_y_from_width(c, scr_w, scr_h) ==
    LET true_width == c.width_request + BORDER_WIDTH * 2
        true_height == c.height_request + BORDER_WIDTH * 2
        fw == (c.fixed \/ ~c.normal) /\ true_width < scr_w
        fh == (c.fixed \/ ~c.normal) /\ true_height < scr_h
    IN  [c EXCEPT
            !.x = IF fw THEN CDiv(scr_w - true_width, 2) ELSE -BORDER_WIDTH,
            !.width = IF fw THEN c.width_request ELSE scr_w,
            !.y = IF fh THEN CDiv(scr_h - true_width, 2) ELSE -BORDER_WIDTH,
            !.height = IF fh THEN c.height_request ELSE scr_h]

\* The client c with its rectangle recomputed for a screen of scr_w x scr_h.
update_geometry(c, scr_w, scr_h) ==
    LET true_width == c.width_request + BORDER_WIDTH * 2
        true_height == c.height_request + BORDER_WIDTH * 2
        fw == is_floating(c) /\ true_width < scr_w
        fh == is_floating(c) /\ true_height < scr_h
    IN  [c EXCEPT
            !.x = IF fw THEN CDiv(scr_w - true_width, 2) ELSE -BORDER_WIDTH,
            !.width = IF fw THEN c.width_request ELSE scr_w,
            !.y = IF fh THEN CDiv(scr_h - true_height, 2) ELSE -BORDER_WIDTH,
            !.height = IF fh THEN c.height_request ELSE scr_h]

\* resize that applies the rectangle the client has, without update_geometry.
resize_no_update(c, scr_w, scr_h) ==
    [c |-> c, cmds |-> <<XMoveResizeWindow(c.w, c.x, c.y, c.width, c.height)>>]

\* resize: the recomputed client and the request that applies its rectangle.
resize(c, scr_w, scr_h) ==
    LET n == update_geometry(c, scr_w, scr_h)
    IN  [c |-> n,
         cmds |-> <<XMoveResizeWindow(n.w, n.x, n.y, n.width, n.height)>>]

\* update_client_list that drops the last window of the list, not w.
update_client_list_last(w) ==
    LET client_list == rootProps["ClientList"]
        nitems == Len(client_list)
    IN  IF nitems = 0 \/ \A k \in 1..nitems : client_list[k] # w THEN <<>>
        ELSE <<XChangeProperty(r, "ClientList", "Replace",
                               SubSeq(client_list, 1, nitems - 1))>>

\* The _NET_CLIENT_LIST with the first w removed; no request when the
\* property is empty or does not hold w.
update_client_list(w) ==
    LET client_list == rootProps["ClientList"]
        nitems == Len(client_list)
        i == IF \E k \in 1..nitems : client_list[k] = w
             THEN CHOOSE k \in 1..nitems :
                      client_list[k] = w /\ \A j \in 1..(k - 1) : client_list[j] # w
             ELSE nitems + 1
    IN  IF nitems = 0 \/ i > nitems THEN <<>>
        ELSE <<XChangeProperty(r, "ClientList", "Replace", RemoveAt(client_list, i))>>

\* update_client_list_stacking that fills the array from its first element up.
update_client_list_stacking_up(list, n) ==
    LET clients == [j \in 1..n |-> IF j \in 1..Len(list) THEN list[j].w ELSE None]
    IN  <<XChangeProperty(r, "ClientListStacking", "Replace", clients)>>

\* The array of n windows filled from its last element down while walking
\* the list from its head; an element the walk does not reach is None.
update_client_list_stacking(list, n) ==
    LET clients == [j \in 1..n |->
                      IF n - j + 1 \in 1..Len(list) THEN list[n - j + 1].w ELSE None]
    IN  <<XChangeProperty(r, "ClientListStacking", "Replace", clients)>>

\* pop that exchanges the client with the head.
pop_swap(w) ==
    LET c == get_client(w)
    IN  IF c = NULL \/ c = 1 THEN [head |-> head, cmds |-> <<>>]
        ELSE LET list == [head EXCEPT ![1] = head[c], ![c] = head[1]]
             IN  [head |-> list,
                  cmds |-> focus(w) \o <<XRaiseWindow(w)>>
                           \o update_client_list_stacking(list, clients_n)]

\* pop without the XRaiseWindow.
pop_no_raise(w) ==
    LET c == get_client(w)
    IN  IF c = NULL \/ c = 1 THEN [head |-> head, cmds |-> <<>>]
        ELSE LET list == <<head[c]>> \o unlink(c)
             IN  [head |-> list,
                  cmds |-> focus(w) \o update_client_list_stacking(list, clients_n)]

\* pop: the list after the raise and the requests issued.
pop(w) ==
    LET c == get_client(w)
    IN  IF c = NULL \/ c = 1 THEN [head |-> head, cmds |-> <<>>]
        ELSE LET list == <<head[c]>> \o unlink(c)
             IN  [head |-> list,
                  cmds |-> focus(w) \o <<XRaiseWindow(w)>>
                           \o update_client_list_stacking(list, clients_n)]

\* delete that sends WM_DELETE_WINDOW without looking at the protocols.
delete_any(w, protos) ==
    <<XSendEvent(w, [type |-> "ClientMessage", window |-> w,
                     message_type |-> "WM_PROTOCOLS",
                     data |-> "WM_DELETE_WINDOW"])>>

\* delete: the requests issued, given the answer of XGetWMProtocols.
delete(w, protos) ==
    IF ~protos.ok THEN <<>>
    ELSE IF "WM_DELETE_WINDOW" \notin Range(protos.protocols) THEN <<>>
         ELSE <<XSendEvent(w, [type |-> "ClientMessage", window |-> w,
                                message_type |-> "WM_PROTOCOLS",
                                data |-> "WM_DELETE_WINDOW"])>>

-----------------------------------------------------------------------------
(* History: what the sequence of handled events says the registry holds,   *)
(* kept apart from the manager's own list.                                 *)

HistInsert(w) ==
    IF w \in tracked THEN UNCHANGED history
    ELSE /\ tracked' = tracked \cup {w}
         /\ recency' = <<w>> \o recency
         /\ inserted' = Append(inserted, w)

HistRemove(w) ==
    /\ tracked' = tracked \ {w}
    /\ recency' = Without(recency, w)
    /\ inserted' = Without(inserted, w)

HistRaise(w) ==
    /\ recency' = IF w \in tracked THEN <<w>> \o Without(recency, w) ELSE recency
    /\ UNCHANGED <<tracked, inserted>>

-----------------------------------------------------------------------------
(* Event handlers.                                                         *)

button_press(w) ==
    LET p == pop(w)
    IN  /\ head' = p.head
        /\ UNCHANGED <<clients_n, sw, sh, running>>
        /\ Issue(p.cmds \o <<XAllowEvents>>)

FrameExtents(w) ==
    XChangeProperty(w, "FrameExtents", "Replace",
        <<BORDER_WIDTH, BORDER_WIDTH, BORDER_WIDTH, BORDER_WIDTH>>)

\* client_message that answers a fullscreen request of a floating window
\* by giving it the rectangle of a tiled one.
client_message_fullscreen(w, msg, protos) ==
    LET c == get_client(w)
    IN  IF c = NULL THEN UNCHANGED mem /\ Issue(<<>>)
        ELSE IF msg = "ActiveWindow"
             THEN /\ head' = pop(w).head
                  /\ UNCHANGED <<clients_n, sw, sh, running>>
                  /\ Issue(pop(w).cmds)
             ELSE IF msg = "CloseWindow"
                  THEN UNCHANGED mem /\ Issue(delete(w, protos))
                  ELSE IF msg = "RequestFrameExtents"
                       THEN UNCHANGED mem /\ Issue(<<FrameExtents(w)>>)
                       ELSE IF msg = "WMState" /\ is_floating(head[c])
                            THEN /\ head' = [head EXCEPT
                                               ![c].x = -BORDER_WIDTH,
                                               ![c].y = -BORDER_WIDTH,
                                               ![c].width = sw,
                                               ![c].height = sh]
                                 /\ UNCHANGED <<clients_n, sw, sh, running>>
                                 /\ Issue(<<XMoveResizeWindow(w, -BORDER_WIDTH,
                                             -BORDER_WIDTH, sw, sh)>>)
                            ELSE UNCHANGED mem /\ Issue(<<>>)

\* client_message without the lookup of the window.
client_message_unguarded(w, msg, protos) ==
    IF msg = "ActiveWindow"
    THEN /\ head' = pop(w).head
         /\ UNCHANGED <<clients_n, sw, sh, running>>
         /\ Issue(pop(w).cmds)
    ELSE IF msg = "CloseWindow"
         THEN UNCHANGED mem /\ Issue(delete(w, protos))
         ELSE IF msg = "RequestFrameExtents"
              THEN UNCHANGED mem /\ Issue(<<FrameExtents(w)>>)
              ELSE UNCHANGED mem /\ Issue(<<>>)

client_message(w, msg, protos) ==
    IF get_client(w) = NULL THEN UNCHANGED mem /\ Issue(<<>>)
    ELSE IF msg = "ActiveWindow"
         THEN /\ head' = pop(w).head
              /\ UNCHANGED <<clients_n, sw, sh, running>>
              /\ Issue(pop(w).cmds)
         ELSE IF msg = "CloseWindow"
              THEN UNCHANGED mem /\ Issue(delete(w, protos))
              ELSE IF msg = "RequestFrameExtents"
                   THEN UNCHANGED mem /\ Issue(<<FrameExtents(w)>>)
                   ELSE UNCHANGED mem /\ Issue(<<>>)

configure_notify(window, width, height) ==
    IF window # r \/ (sw = width /\ sh = height) THEN UNCHANGED mem /\ Issue(<<>>)
    ELSE /\ sw' = width
         /\ sh' = height
         /\ head' = [i \in 1..Len(head) |-> resize(head[i], width, height).c]
         /\ UNCHANGED <<clients_n, running>>
         /\ Issue(<< XChangeProperty(r, "DesktopGeometry", "Replace", <<width, height>>),
                     XChangeProperty(r, "Workarea", "Replace", <<0, 0, width, height>>) >>
                  \o [i \in 1..Len(head) |-> resize(head[i], width, height).cmds[1]])

configure_request(w, value_mask, e) ==
    LET c == get_client(w)
    IN  IF c # NULL
        THEN LET c1 == [head[c] EXCEPT
                          !.width_request =
                              IF "CWWidth" \in value_mask THEN e.width ELSE @,
                          !.height_request =
                              IF "CWHeight" \in value_mask THEN e.height ELSE @]
             IN  IF value_mask \cap {"CWWidth", "CWHeight"} # {} /\ is_floating(c1)
                 THEN /\ head' = [head EXCEPT ![c] = resize(c1, sw, sh).c]
                      /\ UNCHANGED <<clients_n, sw, sh, running>>
                      /\ Issue(resize(c1, sw, sh).cmds)
                 ELSE /\ head' = [head EXCEPT ![c] = c1]
                      /\ UNCHANGED <<clients_n, sw, sh, running>>
                      /\ Issue(<<XSendEvent(w,
                                   [type |-> "ConfigureNotify", event |-> w,
                                    window |-> w, x |-> c1.x, y |-> c1.y,
                                    width |-> c1.width, height |-> c1.height,
                                    border_width |-> BORDER_WIDTH, above |-> None,
                                    override_redirect |-> FALSE])>>)
        ELSE /\ UNCHANGED mem
             /\ Issue(<<XConfigureWindow(w, value_mask,
                          [x |-> e.x, y |-> e.y, width |-> e.width,
                           height |-> e.height, border_width |-> e.border_width,
                           sibling |-> e.above, stack_mode |-> e.detail])>>)

\* focus_in that gives the focus to the window of the event when that
\* window is managed.
focus_in_target(w) ==
    /\ UNCHANGED mem
    /\ Issue(IF head # <<>> /\ head[1].w # w
             THEN focus(IF get_client(w) # NULL THEN w ELSE head[1].w)
             ELSE <<>>)

focus_in(w) ==
    /\ UNCHANGED mem
    /\ Issue(IF head # <<>> /\ head[1].w # w THEN focus(head[1].w) ELSE <<>>)

\* map_request that writes the new window to _NET_CLIENT_LIST_STACKING with
\* PropModeReplace.
map_request_replace(w, geom, hints, wtype) ==
    IF get_client(w) # NULL THEN UNCHANGED mem /\ Issue(<<>>)
    ELSE LET width == IF geom.ok THEN geom.width ELSE sw
             height == IF geom.ok THEN geom.height ELSE sh
             c == update_geometry(
                      [w |-> w, fixed |-> is_fixed(hints), normal |-> is_normal(wtype),
                       width_request |-> width, height_request |-> height,
                       x |-> None, y |-> None, width |-> None, height |-> None],
                      sw, sh)
         IN  /\ head' = <<c>> \o head
             /\ clients_n' = clients_n + 1
             /\ UNCHANGED <<sw, sh, running>>
             /\ Issue(<< XChangeProperty(r, "ClientList", "Append", <<w>>),
                         XChangeProperty(r, "ClientListStacking", "Replace", <<w>>),
                         FrameExtents(w),
                         XChangeProperty(w, "WMDesktop", "Replace", <<0>>),
                         XGrabButton(w),
                         XSelectInput(w, {"FocusChangeMask", "PropertyChangeMask"}),
                         XConfigureWindow(w,
                             {"CWX", "CWY", "CWWidth", "CWHeight", "CWBorderWidth"},
                             [x |-> c.x, y |-> c.y, width |-> c.width,
                              height |-> c.height, border_width |-> BORDER_WIDTH]),
                         XChangeProperty(w, "State", "Replace", <<"NormalState", "None">>),
                         XMapWindow(w) >>
                      \o focus(w))

map_request(w, geom, hints, wtype) ==
    IF get_client(w) # NULL THEN UNCHANGED mem /\ Issue(<<>>)
    ELSE LET width == IF geom.ok THEN geom.width ELSE sw
             height == IF geom.ok THEN geom.height ELSE sh
             c == update_geometry(
                      [w |-> w, fixed |-> is_fixed(hints), normal |-> is_normal(wtype),
                       width_request |-> width, height_request |-> height,
                       x |-> None, y |-> None, width |-> None, height |-> None],
                      sw, sh)
         IN  /\ head' = <<c>> \o head
             /\ clients_n' = clients_n + 1
             /\ UNCHANGED <<sw, sh, running>>
             /\ Issue(<< XChangeProperty(r, "ClientList", "Append", <<w>>),
                         XChangeProperty(r, "ClientListStacking", "Append", <<w>>),
                         FrameExtents(w),
                         XChangeProperty(w, "WMDesktop", "Replace", <<0>>),
                         XGrabButton(w),
                         XSelectInput(w, {"FocusChangeMask", "PropertyChangeMask"}),
                         XConfigureWindow(w,
                             {"CWX", "CWY", "CWWidth", "CWHeight", "CWBorderWidth"},
                             [x |-> c.x, y |-> c.y, width |-> c.width,
                              height |-> c.height, border_width |-> BORDER_WIDTH]),
                         XChangeProperty(w, "State", "Replace", <<"NormalState", "None">>),
                         XMapWindow(w) >>
                      \o focus(w))


\* Whether the characters s start with the characters p.
StartsWith(s, p) == Len(s) >= Len(p) /\ SubSeq(s, 1, Len(p)) = p

\* cmd_of that compares "last" by its first four characters only.
cmd_of_last_prefix(text) ==
    LET cmd == SubSeq(text.value, 1, IF Len(text.value) < 7 THEN Len(text.value) ELSE 7)
    IN  IF StartsWith(cmd, <<"l", "a", "s", "t">>) THEN "last"
        ELSE IF cmd = <<"c", "l", "o", "s", "e">> THEN "close"
        ELSE IF cmd = <<"q", "u", "i", "t">> THEN "quit"
        ELSE ""

\* cmd_of that compares "quit" by its first four characters only.
cmd_of_quit_prefix(text) ==
    LET cmd == SubSeq(text.value, 1, IF Len(text.value) < 7 THEN Len(text.value) ELSE 7)
    IN  IF cmd = <<"l", "a", "s", "t">> THEN "last"
        ELSE IF cmd = <<"c", "l", "o", "s", "e">> THEN "close"
        ELSE IF StartsWith(cmd, <<"q", "u", "i", "t">>) THEN "quit"
        ELSE ""

\* The command in the first cmd_size - 1 characters of the property's value.
cmd_of(text) ==
    LET cmd == SubSeq(text.value, 1, IF Len(text.value) < 7 THEN Len(text.value) ELSE 7)
    IN  IF cmd = <<"l", "a", "s", "t">> THEN "last"
        ELSE IF cmd = <<"c", "l", "o", "s", "e">> THEN "close"
        ELSE IF cmd = <<"q", "u", "i", "t">> THEN "quit"
        ELSE ""

\* Remote commands.
close(protos) ==
    /\ UNCHANGED mem
    /\ Issue(IF clients_n > 0 THEN delete(head[1].w, protos) ELSE <<>>)

\* last that raises the tail of the list.
last_tail ==
    LET p == IF clients_n > 1 THEN pop(head[Len(head)].w)
             ELSE [head |-> head, cmds |-> <<>>]
    IN  /\ head' = p.head
        /\ UNCHANGED <<clients_n, sw, sh, running>>
        /\ Issue(p.cmds)

last ==
    LET p == IF clients_n > 1 THEN pop(head[2].w) ELSE [head |-> head, cmds |-> <<>>]
    IN  /\ head' = p.head
        /\ UNCHANGED <<clients_n, sw, sh, running>>
        /\ Issue(p.cmds)

quit ==
    /\ running' = FALSE
    /\ UNCHANGED <<head, clients_n, sw, sh>>
    /\ Issue(<<>>)

property_notify(w, atom, text, protos, hints, wtype) ==
    IF w = r
    THEN IF atom # "XA_WM_CMD" \/ ~text.ok THEN UNCHANGED mem /\ Issue(<<>>)
         ELSE IF cmd_of(text) = "last" THEN last
         ELSE IF cmd_of(text) = "close" THEN close(protos)
         ELSE IF cmd_of(text) = "quit" THEN quit
         ELSE UNCHANGED mem /\ Issue(<<>>)
    ELSE LET c == get_client(w)
         IN  IF c # NULL /\ atom \in {"XA_WM_NORMAL_HINTS", "WMWindowType"}
             THEN LET floating_old == is_floating(head[c])
                      c1 == IF atom = "XA_WM_NORMAL_HINTS"
                            THEN [head[c] EXCEPT !.fixed = is_fixed(hints)]
                            ELSE [head[c] EXCEPT !.normal = is_normal(wtype)]
                  IN  IF floating_old # is_floating(c1)
                      THEN /\ head' = [head EXCEPT ![c] = resize(c1, sw, sh).c]
                           /\ UNCHANGED <<clients_n, sw, sh, running>>
                           /\ Issue(resize(c1, sw, sh).cmds)
                      ELSE /\ head' = [head EXCEPT ![c] = c1]
                           /\ UNCHANGED <<clients_n, sw, sh, running>>
                           /\ Issue(<<>>)
             ELSE UNCHANGED mem /\ Issue(<<>>)

\* unmap_notify that leaves _NET_ACTIVE_WINDOW as it is when the list
\* becomes empty.
unmap_notify_keep_active(w) ==
    LET c == get_client(w)
    IN  IF c = NULL THEN UNCHANGED mem /\ Issue(<<>>)
        ELSE LET teardown ==
                     << XGrabServer,
                        XSelectInput(w, {}),
                        XUngrabButton(w),
                        XDeleteProperty(w, "WMDesktop"),
                        XChangeProperty(w, "State", "Replace", <<"WithdrawnState", "None">>),
                        XSync,
                        XUngrabServer >>
                 list == IF c # 1 THEN unlink(c)
                         ELSE IF clients_n = 1 THEN <<>>
                         ELSE Tail(head)
                 relink == IF c # 1 \/ clients_n = 1 THEN <<>> ELSE focus(list[1].w)
             IN  /\ head' = list
                 /\ clients_n' = clients_n - 1
                 /\ UNCHANGED <<sw, sh, running>>
                 /\ Issue(teardown \o relink \o update_client_list(w)
                          \o update_client_list_stacking(list, clients_n - 1))

\* unmap_notify that releases the server after the lists are republished.
unmap_notify_late_ungrab(w) ==
    LET c == get_client(w)
    IN  IF c = NULL THEN UNCHANGED mem /\ Issue(<<>>)
        ELSE LET teardown ==
                     << XGrabServer,
                        XSelectInput(w, {}),
                        XUngrabButton(w),
                        XDeleteProperty(w, "WMDesktop"),
                        XChangeProperty(w, "State", "Replace", <<"WithdrawnState", "None">>),
                        XSync >>
                 list == IF c # 1 THEN unlink(c)
                         ELSE IF clients_n = 1 THEN <<>>
                         ELSE Tail(head)
                 relink == IF c # 1 THEN <<>>
                           ELSE IF clients_n = 1
                                THEN <<XChangeProperty(r, "ActiveWindow", "Replace", <<>>)>>
                                ELSE focus(list[1].w)
             IN  /\ head' = list
                 /\ clients_n' = clients_n - 1
                 /\ UNCHANGED <<sw, sh, running>>
                 /\ Issue(teardown \o relink \o update_client_list(w)
                          \o update_client_list_stacking(list, clients_n - 1)
                          \o <<XUngrabServer>>)

unmap_notify(w) ==
    LET c == get_client(w)
    IN  IF c = NULL THEN UNCHANGED mem /\ Issue(<<>>)
        ELSE LET teardown ==
                     << XGrabServer,
                        XSelectInput(w, {}),
                        XUngrabButton(w),
                        XDeleteProperty(w, "WMDesktop"),
                        XChangeProperty(w, "State", "Replace", <<"WithdrawnState", "None">>),
                        XSync,
                        XUngrabServer >>
                 list == IF c # 1 THEN unlink(c)
                         ELSE IF clients_n = 1 THEN <<>>
                         ELSE Tail(head)
                 relink == IF c # 1 THEN <<>>
                           ELSE IF clients_n = 1
                                THEN <<XChangeProperty(r, "ActiveWindow", "Replace", <<>>)>>
                                ELSE focus(list[1].w)
             IN  /\ head' = list
                 /\ clients_n' = clients_n - 1
                 /\ UNCHANGED <<sw, sh, running>>
                 /\ Issue(teardown \o relink \o update_client_list(w)
                          \o update_client_list_stacking(list, clients_n - 1))

-----------------------------------------------------------------------------
(* The main loop: one event is fetched and handled while running holds.    *)

Event(type, w, arg) == [type |-> type, w |-> w, arg |-> arg]

ButtonPress(w) ==
    /\ running
    /\ ev' = Event("ButtonPress", w, "")
    /\ button_press(w)
    /\ HistRaise(w)

ClientMessage(w, msg, protos) ==
    /\ running
    /\ ev' = Event("ClientMessage", w, msg)
    /\ client_message(w, msg, protos)
    /\ IF msg = "ActiveWindow" THEN HistRaise(w) ELSE UNCHANGED history

ConfigureNotify(window, size) ==
    /\ running
    /\ ev' = Event("ConfigureNotify", window, "")
    /\ configure_notify(window, size[1], size[2])
    /\ UNCHANGED history

ConfigureRequest(w, value_mask, e) ==
    /\ running
    /\ ev' = Event("ConfigureRequest", w, "")
    /\ configure_request(w, value_mask, e)
    /\ UNCHANGED history

FocusIn(w) ==
    /\ running
    /\ ev' = Event("FocusIn", w, "")
    /\ focus_in(w)
    /\ UNCHANGED history

MapRequest(w, geom, hints, wtype) ==
    /\ running
    /\ ev' = Event("MapRequest", w, "")
    /\ map_request(w, geom, hints, wtype)
    /\ HistInsert(w)

PropertyNotify(w, atom, text, protos, hints, wtype) ==
    /\ running
    /\ ev' = Event("PropertyNotify", w,
                   IF w = r /\ atom = "XA_WM_CMD" /\ text.ok THEN Str(text.value) ELSE atom)
    /\ property_notify(w, atom, text, protos, hints, wtype)
    /\ IF w = r /\ atom = "XA_WM_CMD" /\ text.ok /\ cmd_of(text) = "last"
          /\ Len(recency) > 1
       THEN HistRaise(recency[2])
       ELSE UNCHANGED history

UnmapNotify(w) ==
    /\ running
    /\ ev' = Event("UnmapNotify", w, "")
    /\ unmap_notify(w)
    /\ HistRemove(w)

\* The state when the main loop is entered with no window to adopt: the
\* startup scan hands each window it adopts to map_request, as a MapRequest
\* event does.  stack is the stacking order of the windows whose stacking
\* the specification follows.
InitWith(stack) ==
    /\ head = <<>>
    /\ clients_n = 0
    /\ sw = 1920
    /\ sh = 1080
    /\ running = TRUE
    /\ focused = None
    /\ rootProps = [ActiveWindow |-> <<>>, ClientList |-> <<>>,
                    ClientListStacking |-> <<>>, DesktopGeometry |-> <<1920, 1080>>,
                    Workarea |-> <<0, 0, 1920, 1080>>]
    /\ xstack = stack
    /\ ev = Event("", None, "")
    /\ cmds = <<>>
    /\ tracked = {}
    /\ recency = <<>>
    /\ inserted = <<>>

Init == InitWith(<<>>)

\* Every window is tiled and the screen keeps its size: the registry, the
\* focus and the published lists.
Next ==
    \/ \E w \in Windows : ButtonPress(w)
    \/ \E w \in Windows, m \in ClientMessages :
           ClientMessage(w, m.message_type, m.protos)
    \/ \E c \in ConfigureNotifies(Windows, ScreenSizesPlain) :
           ConfigureNotify(c.window, c.size)
    \/ \E w \in Windows, e \in ConfigureRequestsPlain :
           ConfigureRequest(w, e.value_mask, e)
    \/ \E w \in Windows : FocusIn(w)
    \/ \E w \in Windows, g \in GeometriesPlain, d \in DeclaredPlain :
           MapRequest(w, g, d.hints, d.wtype)
    \/ \E w \in Windows, p \in ClientProperties(HintsPlain, TypesPlain) :
           PropertyNotify(w, p.atom, Text(<<>>), NoProtocols, p.hints, p.wtype)
    \/ \E p \in RootProperties :
           PropertyNotify(r, p.atom, p.text, p.protos, NoHints, NoType)
    \/ \E w \in Windows : UnmapNotify(w)

Spec == Init /\ [][Next]_vars

\* Fewer windows, of every classification and size, on a screen that changes
\* its size: the geometry.  Of the client messages, the activation and the
\* fullscreen request; of the remote commands, the one that raises.
NextGeom ==
    \/ \E w \in WindowsGeom : ButtonPress(w)
    \/ \E w \in WindowsGeom,
          m \in {x \in ClientMessages : x.message_type \in {"ActiveWindow", "WMState"}} :
           ClientMessage(w, m.message_type, m.protos)
    \/ \E c \in ConfigureNotifies({}, ScreenSizesAll) :
           ConfigureNotify(c.window, c.size)
    \/ \E w \in WindowsGeom, e \in ConfigureRequestsAll :
           ConfigureRequest(w, e.value_mask, e)
    \/ \E w \in WindowsGeom : FocusIn(w)
    \/ \E w \in WindowsGeom, g \in GeometriesAll, d \in DeclaredAll :
           MapRequest(w, g, d.hints, d.wtype)
    \/ \E w \in WindowsGeom, p \in ClientProperties(HintsAll, TypesAll) :
           PropertyNotify(w, p.atom, Text(<<>>), NoProtocols, p.hints, p.wtype)
    \/ \E p \in RootPropertiesLast :
           PropertyNotify(r, p.atom, p.text, p.protos, NoHints, NoType)
    \/ \E w \in WindowsGeom : UnmapNotify(w)

SpecGeom == Init /\ [][NextGeom]_vars

\* Tiled windows and floating windows of fixed size together, with two
\* requested sizes, on a screen that changes its size: the geometry of
\* several windows.  Of the events that do not touch the geometry, one of
\* each kind.
NextScreen ==
    \/ \E w \in WindowsScreen : ButtonPress(w)
    \/ \E m \in {x \in ClientMessages : x.message_type = "ActiveWindow"} :
           ClientMessage(1, m.message_type, m.protos)
    \/ \E c \in ConfigureNotifies({}, ScreenSizesAll) :
           ConfigureNotify(c.window, c.size)
    \/ \E w \in WindowsScreen, e \in ConfigureRequestsSome :
           ConfigureRequest(w, e.value_mask, e)
    \/ FocusIn(1)
    \/ \E w \in WindowsScreen, g \in GeometriesPlain, d \in DeclaredSome :
           MapRequest(w, g, d.hints, d.wtype)
    \/ \E w \in WindowsScreen,
          p \in {x \in ClientProperties(HintsSome, {}) : x.atom = "XA_WM_NORMAL_HINTS"} :
           PropertyNotify(w, p.atom, Text(<<>>), NoProtocols, p.hints, p.wtype)
    \/ \E p \in RootPropertiesLast :
           PropertyNotify(r, p.atom, p.text, p.protos, NoHints, NoType)
    \/ \E w \in WindowsScreen : UnmapNotify(w)

SpecScreen == Init /\ [][NextScreen]_vars

\* The windows of Spec, created in the order of their identifiers, and the
\* server's stacking order of them.
InitStack == InitWith([i \in 1..NumWindows |-> i])

SpecStack == InitStack /\ [][Next]_vars

-----------------------------------------------------------------------------
(* Properties.                                                             *)

Managed == Range(WinsOf(head))
Issued(op) == \E i \in 1..Len(cmds) : cmds[i].op = op
Floating(c) == c.fixed \/ ~c.normal
Tiled(c) == ~c.fixed /\ c.normal

\* C1: no window is twice in the list, and the counter clients_n and the
\* length of the list both equal the number of windows a map request
\* inserted and no unmap notify has removed since.
RegistryCountsTracked ==
    /\ \A i, j \in 1..Len(head) : head[i].w = head[j].w => i = j
    /\ clients_n = Len(head)
    /\ Len(head) = Cardinality(tracked)
    /\ Managed = tracked

\* An unmap notify has removed one of three windows.
RegistryCountsTrackedWitness ==
    /\ ev.type = "UnmapNotify"
    /\ Issued("XUngrabServer")
    /\ clients_n = 2
    /\ Len(head) = 2

\* C2: when the list is not empty, the window of the manager's last
\* XSetInputFocus and the window in _NET_ACTIVE_WINDOW are the head; when
\* the list is empty, _NET_ACTIVE_WINDOW holds no window.
FocusFollowsHead ==
    IF head # <<>>
    THEN focused = head[1].w /\ rootProps["ActiveWindow"] = <<head[1].w>>
    ELSE rootProps["ActiveWindow"] = <<>>

\* A focus-in of another window was answered by focusing the head again.
FocusFollowsHeadWitness ==
    /\ ev.type = "FocusIn"
    /\ Len(head) >= 2
    /\ ev.w = head[2].w
    /\ Issued("XSetInputFocus")
    /\ focused = head[1].w

\* The topmost window of the server's stacking order among the managed ones.
TopManaged ==
    LET s == SelectSeq(xstack, LAMBDA w : w \in Managed)
    IN  IF s = <<>> THEN None ELSE s[Len(s)]

\* C3: when the list is not empty, its head is the topmost window of the
\* server's stacking order among the managed windows.
HeadIsTopmost == head # <<>> => TopManaged = head[1].w

\* C4: the list from head to tail is the managed windows by their last
\* insert or raise, newest first.
RegistryIsMoveToFront == WinsOf(head) = recency

\* The remote command "last" has raised the second of three windows.
RegistryIsMoveToFrontWitness ==
    /\ ev.type = "PropertyNotify"
    /\ ev.arg = "last"
    /\ Issued("XRaiseWindow")
    /\ WinsOf(head) = <<2, 3, 1>>

\* C5: an unmap notify of the head with another window managed makes the
\* head's successor the head, gives it the input focus and writes it to
\* _NET_ACTIVE_WINDOW; a map request of W2 with W1 managed gives the list
\* [W2, W1] with W2 focused.
UnmapHeadPromotesSuccessor ==
    [][ /\ (ev'.type = "UnmapNotify" /\ Len(head) >= 2 /\ ev'.w = head[1].w)
           => /\ head' = Tail(head)
              /\ focused' = head[2].w
              /\ rootProps'["ActiveWindow"] = <<head[2].w>>
        /\ (ev'.type = "MapRequest" /\ WinsOf(head) = <<1>> /\ ev'.w = 2)
           => /\ WinsOf(head') = <<2, 1>>
              /\ focused' = 2
      ]_vars

\* W1 and W2 were managed, W2 the head, and W2 was unmapped.
UnmapHeadPromotesSuccessorWitness ==
    /\ ev = Event("UnmapNotify", 2, "")
    /\ WinsOf(head) = <<1>>
    /\ inserted = <<1>>
    /\ Issued("XSetInputFocus")
    /\ focused = 1
    /\ rootProps["ActiveWindow"] = <<1>>

\* C6: a map request of a managed window changes neither the list, the
\* counter, the screen size, the focus, the root window's properties nor
\* the stacking order, and issues no request.
MapManagedIsIdempotent ==
    [][ (ev'.type = "MapRequest" /\ ev'.w \in Managed)
        => /\ UNCHANGED <<head, clients_n, sw, sh, running, focused, rootProps, xstack>>
           /\ cmds' = <<>>
      ]_vars

\* A map request of the tail of the list was handled.
MapManagedIsIdempotentWitness ==
    /\ ev.type = "MapRequest"
    /\ Len(head) >= 2
    /\ ev.w = head[Len(head)].w
    /\ cmds = <<>>
    /\ Len(rootProps["ClientList"]) = Len(head)

\* C7 as stated: _NET_CLIENT_LIST_STACKING has the length of the list and
\* the order of its traversal from the head.
StackingListInRegistryOrder ==
    /\ Len(rootProps["ClientListStacking"]) = clients_n
    /\ rootProps["ClientListStacking"] = WinsOf(head)

\* C7: _NET_CLIENT_LIST_STACKING has the length of the list and the reverse
\* of the order of its traversal: the head is its last window.
StackingListReversesRegistry ==
    /\ Len(rootProps["ClientListStacking"]) = clients_n
    /\ rootProps["ClientListStacking"] = Reverse(WinsOf(head))

\* A button press has raised the tail of three windows.
StackingListReversesRegistryWitness ==
    /\ ev.type = "ButtonPress"
    /\ Issued("XRaiseWindow")
    /\ WinsOf(head) = <<1, 3, 2>>
    /\ rootProps["ClientListStacking"] = <<2, 3, 1>>

\* C8: _NET_CLIENT_LIST holds the managed windows, each once, in the order
\* of their insertion.
ClientListIsInsertionOrder ==
    /\ rootProps["ClientList"] = inserted
    /\ Range(rootProps["ClientList"]) = Managed
    /\ Len(rootProps["ClientList"]) = Cardinality(Managed)

\* The window inserted second of three was unmapped; the list's order is
\* not the order of insertion.
ClientListIsInsertionOrderWitness ==
    /\ ev = Event("UnmapNotify", 2, "")
    /\ Issued("XUngrabServer")
    /\ rootProps["ClientList"] = <<1, 3>>
    /\ WinsOf(head) = <<3, 1>>

\* The rectangle of a floating window on one axis: requested size R, screen
\* dimension D.
AxisPosition(R, D) ==
    IF R + 2 * BORDER_WIDTH < D THEN (D - R - 2 * BORDER_WIDTH) \div 2 ELSE -BORDER_WIDTH
AxisSize(R, D) == IF R + 2 * BORDER_WIDTH < D THEN R ELSE D

\* C9: update_geometry gives a floating window, on each axis by itself,
\* the centred position and the requested size when the request and two
\* borders are less than the screen, else the position -BW and the screen's
\* size; a map request stores this rectangle; 400x300 on 1920x1080 is at
\* (759, 389).
FloatingRectangleByAxis ==
    /\ \A i \in 1..Len(head) :
          Floating(head[i]) =>
              LET g == update_geometry(head[i], sw, sh)
              IN  /\ g.x = AxisPosition(head[i].width_request, sw)
                  /\ g.width = AxisSize(head[i].width_request, sw)
                  /\ g.y = AxisPosition(head[i].height_request, sh)
                  /\ g.height = AxisSize(head[i].height_request, sh)
                  /\ (sw = 1920 /\ sh = 1080 /\ head[i].width_request = 400
                      /\ head[i].height_request = 300)
                     => <<g.x, g.y, g.width, g.height>> = <<759, 389, 400, 300>>
    /\ (ev.type = "MapRequest" /\ Issued("XMapWindow") /\ Floating(head[1]))
       => /\ head[1].x = AxisPosition(head[1].width_request, sw)
          /\ head[1].width = AxisSize(head[1].width_request, sw)
          /\ head[1].y = AxisPosition(head[1].height_request, sh)
          /\ head[1].height = AxisSize(head[1].height_request, sh)

\* A floating window asking for 400x300 was mapped on a screen of 1920x1080.
FloatingRectangleByAxisWitness ==
    /\ ev.type = "MapRequest"
    /\ Issued("XMapWindow")
    /\ sw = 1920 /\ sh = 1080
    /\ Floating(head[1])
    /\ <<head[1].width_request, head[1].height_request>> = <<400, 300>>
    /\ <<head[1].x, head[1].y, head[1].width, head[1].height>> = <<759, 389, 400, 300>>

\* C10: a configure request of a managed tiled window leaves the window's
\* rectangle as it is and is answered by one synthetic ConfigureNotify
\* that carries this rectangle.
ConfigureRequestOfTiledIsRefused ==
    [][ \A i \in 1..Len(head) :
          (ev'.type = "ConfigureRequest" /\ ev'.w = head[i].w /\ Tiled(head[i]))
          => /\ Len(head') = Len(head)
             /\ <<head'[i].x, head'[i].y, head'[i].width, head'[i].height>>
                = <<head[i].x, head[i].y, head[i].width, head[i].height>>
             /\ Len(cmds') = 1
             /\ cmds'[1].op = "XSendEvent"
             /\ cmds'[1].w = head[i].w
             /\ cmds'[1].event.type = "ConfigureNotify"
             /\ <<cmds'[1].event.x, cmds'[1].event.y, cmds'[1].event.width,
                  cmds'[1].event.height>>
                = <<head[i].x, head[i].y, head[i].width, head[i].height>>
      ]_vars

\* A tiled window asked for 2000x701 and was answered with its rectangle.
ConfigureRequestOfTiledIsRefusedWitness ==
    /\ ev.type = "ConfigureRequest"
    /\ head # <<>>
    /\ ev.w = head[1].w
    /\ Tiled(head[1])
    /\ <<head[1].width_request, head[1].height_request>> = <<2000, 701>>
    /\ <<head[1].x, head[1].y, head[1].width, head[1].height>> = <<-1, -1, sw, sh>>
    /\ Issued("XSendEvent")

\* The event handled is a request to close the window w: the remote
\* command "close" with w the head, or a _NET_CLOSE_WINDOW message of w.
CloseOf(w, protos) ==
    \/ /\ ev' = Event("PropertyNotify", r, "close")
       /\ head # <<>>
       /\ w = head[1].w
       /\ PropertyNotify(r, "XA_WM_CMD", Text(<<"c", "l", "o", "s", "e">>), protos,
                         NoHints, NoType)
    \/ /\ ev' = Event("ClientMessage", w, "CloseWindow")
       /\ w \in Managed
       /\ ClientMessage(w, "CloseWindow", protos)

Advertises(protos, p) == protos.ok /\ p \in Range(protos.protocols)

\* C11 as stated: a close of a managed window always issues a request that
\* acts on the window, the close message or a forced termination.
CloseAlwaysActs ==
    [][ \A w \in {ev'.w, IF head = <<>> THEN ev'.w ELSE head[1].w},
           p \in ProtocolsAll :
          CloseOf(w, p)
          => \E i \in 1..Len(cmds') :
                 cmds'[i].op \in {"XSendEvent", "XKillClient", "XDestroyWindow"}
                 /\ cmds'[i].w = w
      ]_vars

\* C11: a close of a managed window sends it the WM_DELETE_WINDOW message
\* when it advertises the protocol and otherwise issues no request at all;
\* in both cases the memory and the server's state stay as they are.
CloseSendsOnlyWhenAdvertised ==
    [][ \A w \in {ev'.w, IF head = <<>> THEN ev'.w ELSE head[1].w},
           p \in ProtocolsAll :
          CloseOf(w, p)
          => /\ UNCHANGED <<mem, server>>
             /\ IF Advertises(p, "WM_DELETE_WINDOW")
                THEN /\ Len(cmds') = 1
                     /\ cmds'[1].op = "XSendEvent"
                     /\ cmds'[1].w = w
                     /\ cmds'[1].event.data = "WM_DELETE_WINDOW"
                ELSE cmds' = <<>>
      ]_vars

\* The remote command "close" met a head that does not advertise the
\* protocol, and nothing was issued.
CloseSendsOnlyWhenAdvertisedWitness ==
    /\ ev = Event("PropertyNotify", r, "close")
    /\ Len(head) >= 2
    /\ cmds = <<>>

\* The event handled is a PropertyNotify of the root window.
RootNotify(e) == e.type = "PropertyNotify" /\ e.w = r

\* C12: the remote command "close" with no client, the remote command
\* "last" with fewer than two clients, and a PropertyNotify of the root
\* window whose value is none of "last", "close", "quit" change neither
\* the memory (list, rectangles, counter, screen size, running) nor the
\* server's state, and issue no request.
RemoteCommandWithoutTargetIsNoOp ==
    [][ ( /\ RootNotify(ev')
          /\ \/ ev'.arg = "close" /\ head = <<>>
             \/ ev'.arg = "last" /\ Len(head) < 2
             \/ ev'.arg \notin {"last", "close", "quit"} )
        => /\ UNCHANGED <<mem, server>>
           /\ cmds' = <<>>
      ]_vars

\* The value "lastt" was written with two windows managed, and nothing
\* was issued.
RemoteCommandWithoutTargetIsNoOpWitness ==
    /\ ev = Event("PropertyNotify", r, "lastt")
    /\ Len(head) >= 2
    /\ running
    /\ cmds = <<>>

\* C13: running is cleared only by handling a PropertyNotify of the root
\* window whose _XSWM_CMD value is "quit", and once running is cleared no
\* event is handled: nothing changes any more.
LoopStopsOnlyByQuit ==
    [][ /\ (running /\ ~running') => (RootNotify(ev') /\ ev'.arg = "quit")
        /\ (RootNotify(ev') /\ ev'.arg = "quit") => ~running'
        /\ ~running => UNCHANGED vars
      ]_vars

\* "quit" was handled with windows managed: the loop has stopped and the
\* windows are as they were.
LoopStopsOnlyByQuitWitness ==
    /\ ev = Event("PropertyNotify", r, "quit")
    /\ ~running
    /\ Len(head) = NumWindows
    /\ cmds = <<>>

\* C14: the remote command "last" with two or more clients makes the
\* second client the head and focuses it, makes the former head the second
\* and keeps the others in their order; the pop of the second client that
\* a further "last" performs in the state reached gives the list and the
\* focus back.
LastExchangesTopTwo ==
    [][ (RootNotify(ev') /\ ev'.arg = "last" /\ Len(head) >= 2)
        => /\ head' = <<head[2], head[1]>> \o SubSeq(head, 3, Len(head))
           /\ clients_n' = clients_n
           /\ focused' = head[2].w
           /\ rootProps'["ActiveWindow"] = <<head[2].w>>
           /\ LET again == (pop(head[2].w))'
                  x == ApplyRequests(
                           [focused |-> focused', rootProps |-> rootProps',
                            xstack |-> xstack'], again.cmds)
              IN  /\ again.head = head
                  /\ x.focused = focused
                  /\ x.rootProps["ActiveWindow"] = rootProps["ActiveWindow"]
      ]_vars

\* "last" was handled with three windows mapped in the order 1, 2, 3.
LastExchangesTopTwoWitness ==
    /\ ev = Event("PropertyNotify", r, "last")
    /\ inserted = <<1, 2, 3>>
    /\ WinsOf(head) = <<2, 3, 1>>
    /\ focused = 2
    /\ rootProps["ClientListStacking"] = <<1, 3, 2>>

\* An unmap notify has removed the only client.
UnmappedTheOnlyClient ==
    /\ ev.type = "UnmapNotify"
    /\ Issued("XUngrabServer")
    /\ head = <<>>

\* C15 as stated: after an unmap notify has removed the only client,
\* _NET_ACTIVE_WINDOW holds no window and the input focus the manager has
\* set is on no client window.
UnmapOfOnlyClientClearsFocus ==
    UnmappedTheOnlyClient
    => /\ rootProps["ActiveWindow"] = <<>>
       /\ focused \notin Windows

\* C15: after an unmap notify has removed the only client,
\* _NET_ACTIVE_WINDOW holds no window; the handler has issued no
\* XSetInputFocus, and the window of the manager's last XSetInputFocus is
\* the window removed.
UnmapOfOnlyClientClearsActiveWindow ==
    UnmappedTheOnlyClient
    => /\ rootProps["ActiveWindow"] = <<>>
       /\ ~Issued("XSetInputFocus")
       /\ focused = ev.w

\* The only client left of two was unmapped.
UnmapOfOnlyClientClearsActiveWindowWitness ==
    /\ UnmappedTheOnlyClient
    /\ ev.w = 1
    /\ clients_n = 0
    /\ rootProps["ClientList"] = <<>>
    /\ rootProps["ActiveWindow"] = <<>>
    /\ focused = 1

Rectangle(c) == <<c.x, c.y, c.width, c.height>>

\* The event handled is a fullscreen request of the floating client i.
FullscreenOfFloating(e, i) ==
    /\ e.type = "ClientMessage"
    /\ e.arg = "WMState"
    /\ e.w = head[i].w
    /\ Floating(head[i])

\* C16 as stated: a fullscreen request of a managed floating window gives
\* the window the rectangle of a tiled one.
FullscreenForcesTiledRectangle ==
    [][ \A i \in 1..Len(head) :
          FullscreenOfFloating(ev', i)
          => /\ Len(head') = Len(head)
             /\ Rectangle(head'[i]) = <<-BORDER_WIDTH, -BORDER_WIDTH, sw, sh>>
      ]_vars

\* C16: a fullscreen request of a managed floating window is ignored: the
\* list with every rectangle and the server's state stay as they are and no
\* request is issued.
FullscreenOfFloatingIsIgnored ==
    [][ \A i \in 1..Len(head) :
          FullscreenOfFloating(ev', i)
          => /\ UNCHANGED <<mem, server>>
             /\ cmds' = <<>>
      ]_vars

\* A centred floating window asked for the fullscreen state and kept its
\* rectangle.
FullscreenOfFloatingIsIgnoredWitness ==
    /\ ev.type = "ClientMessage"
    /\ ev.arg = "WMState"
    /\ head # <<>>
    /\ ev.w = head[1].w
    /\ Floating(head[1])
    /\ sw = 1920 /\ sh = 1080
    /\ Rectangle(head[1]) = <<759, 389, 400, 300>>
    /\ cmds = <<>>

\* The rectangle the geometry policy gives a client on the screen.
PolicyRectangle(c) ==
    IF Tiled(c) THEN <<-BORDER_WIDTH, -BORDER_WIDTH, sw, sh>>
    ELSE << AxisPosition(c.width_request, sw), AxisPosition(c.height_request, sh),
            AxisSize(c.width_request, sw), AxisSize(c.height_request, sh) >>

\* C17: whenever the manager waits for the next event, the rectangle of
\* every client is the one the geometry policy gives its classification,
\* its recorded requested size and the screen size.
RectanglesFollowPolicy ==
    \A i \in 1..Len(head) : Rectangle(head[i]) = PolicyRectangle(head[i])

\* The screen became 800x600 with a tiled window and a floating window of
\* 400x300 managed, and both were given their new rectangles.
RectanglesFollowPolicyWitness ==
    /\ ev.type = "ConfigureNotify"
    /\ sw = 800 /\ sh = 600
    /\ Len(head) = 2
    /\ Len(cmds) = 4
    /\ Tiled(head[1])
    /\ Rectangle(head[1]) = <<-1, -1, 800, 600>>
    /\ Floating(head[2])
    /\ Rectangle(head[2]) = <<199, 149, 400, 300>>

\* C18: a focus-in of a window that is not the head, with the list not
\* empty, is answered by setting the input focus and _NET_ACTIVE_WINDOW to
\* the head; a focus-in of the head, or with the list empty, issues no
\* request; no focus-in changes the list.
FocusInRefocusesHead ==
    [][ ev'.type = "FocusIn"
        => /\ UNCHANGED mem
           /\ IF head # <<>> /\ ev'.w # head[1].w
              THEN /\ cmds' = << XSetInputFocus(head[1].w),
                                 XChangeProperty(r, "ActiveWindow", "Replace",
                                                 <<head[1].w>>) >>
                   /\ focused' = head[1].w
                   /\ rootProps'["ActiveWindow"] = <<head[1].w>>
              ELSE /\ cmds' = <<>>
                   /\ UNCHANGED server
      ]_vars

\* The last of three windows reported the focus and the head was focused
\* again.
FocusInRefocusesHeadWitness ==
    /\ ev.type = "FocusIn"
    /\ Len(head) = 3
    /\ ev.w = head[3].w
    /\ Len(cmds) = 2
    /\ cmds[1] = XSetInputFocus(head[1].w)
    /\ focused = head[1].w

\* The positions in cmds of the requests with operation op.
Positions(op) == {i \in 1..Len(cmds) : cmds[i].op = op}

\* The number of XGrabServer not yet matched by an XUngrabServer after the
\* requests cs, starting from n.
RECURSIVE Grabs(_, _)
Grabs(cs, n) ==
    IF cs = <<>> THEN n
    ELSE Grabs(Tail(cs),
               IF Head(cs).op = "XGrabServer" THEN n + 1
               ELSE IF Head(cs).op = "XUngrabServer" /\ n > 0 THEN n - 1
               ELSE n)

\* An unmap notify of a managed window was handled.
UnmappedManaged == ev.type = "UnmapNotify" /\ cmds # <<>>

\* C19: the requests of an unmap notify of a managed window hold one
\* XGrabServer, one XSync and one XUngrabServer, in this order; the four
\* teardown requests on the window lie between the grab and the XSync;
\* every request on the root window (_NET_ACTIVE_WINDOW and the two lists)
\* and every XSetInputFocus lies after the ungrab, and the stacking list is
\* among them; after the requests of any handler the server is not grabbed.
TeardownInsideServerGrab ==
    /\ Grabs(cmds, 0) = 0
    /\ UnmappedManaged
       => \E g, s, u \in 1..Len(cmds) :
            /\ Positions("XGrabServer") = {g}
            /\ Positions("XSync") = {s}
            /\ Positions("XUngrabServer") = {u}
            /\ g < s /\ s < u
            /\ \A t \in { XSelectInput(ev.w, {}), XUngrabButton(ev.w),
                          XDeleteProperty(ev.w, "WMDesktop"),
                          XChangeProperty(ev.w, "State", "Replace",
                                          <<"WithdrawnState", "None">>) } :
                 \E i \in (g + 1)..(s - 1) : cmds[i] = t
            /\ \A i \in 1..Len(cmds) :
                 (cmds[i].op = "XSetInputFocus"
                  \/ (cmds[i].op = "XChangeProperty" /\ cmds[i].w = r))
                 => i > u
            /\ \E i \in (u + 1)..Len(cmds) :
                 /\ cmds[i].op = "XChangeProperty"
                 /\ cmds[i].w = r
                 /\ cmds[i].prop = "ClientListStacking"
                 /\ cmds[i].data = Reverse(WinsOf(head))

\* The head of three windows was unmapped: seven requests up to the ungrab,
\* then the focus of the successor and the two lists.
TeardownInsideServerGrabWitness ==
    /\ UnmappedManaged
    /\ Len(head) = 2
    /\ Len(cmds) = 11
    /\ cmds[1] = XGrabServer
    /\ cmds[7] = XUngrabServer
    /\ cmds[8] = XSetInputFocus(head[1].w)
    /\ cmds[10].prop = "ClientList"
    /\ cmds[11].prop = "ClientListStacking"

\* C20: a button press, client message, property notify or unmap notify
\* of a window that is neither managed nor the root window changes neither
\* the memory nor the server's state, and issues no request but the replay
\* of the pointer event of a button press; a configure request of an
\* unmanaged window changes nothing either and issues one XConfigureWindow
\* of that window with the mask and the values of the request.
EventOfUnmanagedIsNoOp ==
    [][ (ev'.w \notin Managed /\ ev'.w # r)
        => /\ ev'.type \in {"ButtonPress", "ClientMessage", "PropertyNotify",
                            "UnmapNotify"}
              => /\ UNCHANGED <<mem, server>>
                 /\ cmds' = IF ev'.type = "ButtonPress" THEN <<XAllowEvents>> ELSE <<>>
           /\ ev'.type = "ConfigureRequest"
              => /\ UNCHANGED <<mem, server>>
                 /\ \E e \in ConfigureRequestsPlain :
                      /\ ConfigureRequest(ev'.w, e.value_mask, e)
                      /\ Len(cmds') = 1
                      /\ cmds'[1].op = "XConfigureWindow"
                      /\ cmds'[1].w = ev'.w
                      /\ cmds'[1].mask = e.value_mask
                      /\ cmds'[1].changes =
                             [x |-> e.x, y |-> e.y, width |-> e.width,
                              height |-> e.height, border_width |-> e.border_width,
                              sibling |-> e.above, stack_mode |-> e.detail]
      ]_vars

\* A window that is not managed asked for its frame extents while two
\* others were managed, and nothing was issued.
EventOfUnmanagedIsNoOpWitness ==
    /\ ev.type = "ClientMessage"
    /\ ev.arg = "RequestFrameExtents"
    /\ ev.w \notin Managed
    /\ Len(head) = 2
    /\ cmds = <<>>
    /\ focused = head[1].w

\* The event handled is a button press or an activation message of w:
\* the handlers that call pop with the window of the event.
PopOf(e, w) ==
    /\ e.w = w
    /\ \/ e.type = "ButtonPress"
       \/ e.type = "ClientMessage" /\ e.arg = "ActiveWindow"

\* The requests after those of pop: the replay of a button press.
AfterPop(e) == IF e.type = "ButtonPress" THEN <<XAllowEvents>> ELSE <<>>

\* C21: pop of a window that is not managed or is the head changes neither
\* the memory nor the server's state and issues nothing; pop of another
\* managed window moves its client, as it is, to the head of the list and
\* keeps the others in their order and as they are, and issues
\* XSetInputFocus, the _NET_ACTIVE_WINDOW write, XRaiseWindow and the
\* rewrite of _NET_CLIENT_LIST_STACKING from the new list, in this order;
\* the counter and the screen size stay.
PopMovesToHeadOrDoesNothing ==
    [][ \A w \in Windows :
          PopOf(ev', w)
          => IF w \notin Managed \/ w = head[1].w
             THEN /\ UNCHANGED <<mem, server>>
                  /\ cmds' = AfterPop(ev')
             ELSE LET c == CHOOSE i \in 1..Len(head) : head[i].w = w
                  IN  /\ head' = <<head[c]>> \o RemoveAt(head, c)
                      /\ UNCHANGED <<clients_n, sw, sh, running>>
                      /\ cmds' = << XSetInputFocus(w),
                                    XChangeProperty(r, "ActiveWindow", "Replace", <<w>>),
                                    XRaiseWindow(w),
                                    XChangeProperty(r, "ClientListStacking", "Replace",
                                                    Reverse(WinsOf(head'))) >>
                                 \o AfterPop(ev')
                      /\ focused' = w
      ]_vars

\* An activation message raised the tail of three windows, mapped in the
\* order 1, 2, 3.
PopMovesToHeadOrDoesNothingWitness ==
    /\ ev = Event("ClientMessage", 1, "ActiveWindow")
    /\ inserted = <<1, 2, 3>>
    /\ WinsOf(head) = <<1, 3, 2>>
    /\ Len(cmds) = 4
    /\ cmds[3] = XRaiseWindow(1)
    /\ focused = 1

\* The list update_client_list_stacking would write for the list as it is.
Regenerated == update_client_list_stacking(head, clients_n)[1].data

\* C22: _NET_CLIENT_LIST_STACKING, appended to by map_request and
\* rewritten by pop and unmap_notify, is in every state the list that
\* update_client_list_stacking writes for the list of clients: the head is
\* its last window and the tail its first.
StackingListIsRegeneration ==
    /\ rootProps["ClientListStacking"] = Regenerated
    /\ head # <<>>
       => /\ rootProps["ClientListStacking"][Len(head)] = head[1].w
          /\ rootProps["ClientListStacking"][1] = head[Len(head)].w

\* Window 2 was mapped after 1 and 3 had been mapped and 1 raised: the
\* append has given the list a regeneration gives.
StackingListIsRegenerationWitness ==
    /\ ev = Event("MapRequest", 2, "")
    /\ Issued("XMapWindow")
    /\ inserted = <<1, 3, 2>>
    /\ WinsOf(head) = <<2, 1, 3>>
    /\ rootProps["ClientListStacking"] = <<3, 1, 2>>
    /\ cmds[2] = XChangeProperty(r, "ClientListStacking", "Append", <<2>>)

====
